---- MODULE Spec2Model ----
(***************************************************************************)
(* Model of the request-execution core of the google_maps crate:           *)
(*   src/src/roads/nearest_roads/request/get.rs   NearestRoadsRequest::get *)
(* Several requests run get() concurrently against one client.  A request  *)
(* checks its query, passes the client's rate limiter once, and then runs  *)
(* the closure handed to backoff::future::retry under the policy           *)
(* ExponentialBackoff::default() until the closure returns Ok, returns a   *)
(* Permanent error, or the policy's elapsed-time ceiling is reached.       *)
(* Time is counted in abstract ticks; each request reads its own clock.    *)
(***************************************************************************)
EXTENDS Integers, FiniteSets, Sequences, TLC

\* ---------------------------------------------------------------- bounds
\* The policy of ExponentialBackoff::default(), scaled down to ticks.
InitialInterval == 2
MaxInterval == 3
MaxElapsedTime == 5
\* The longest a single HTTP exchange takes, in ticks.
MaxCallTime == 1
\* The rate budget of each category within one refill window.
BudgetAll == 1
BudgetRoads == 1
\* The number of distinct times given to the directions Request builder.
MaxTime == 2

Requests == {"r1", "r2"}
Apis == {"All", "Roads"}

\* ------------------------------------------------------------ data model
\* The imported constant SERVICE_URL, kept opaque.
SERVICE_URL == "SERVICE_URL"

NoQuery == "None"
Queries == {NoQuery, "points=ok", "points=unbuildable"}

\* RoadsError values: a variant with its fields (unused fields are blank).
Err(variant, code, status, message) ==
    [variant |-> variant, code |-> code, status |-> status, message |-> message]
NoErr == Err("", 0, "", "")
QueryNotBuiltErr == Err("QueryNotBuilt", 0, "", "")

\* The embedded error object of a response, Option<ErrorResponse>.
NoErrorObject == [status |-> "", message |-> ""]
ErrorObjects == {[status |-> "INVALID_ARGUMENT", message |-> "bad points"]}

NoPayload == "none"
Payloads == {"no_points", "snapped_points"}

\* What the server sent as the body of a response.
\*   text: the body could be read;  json: it deserialized;
\*   error/payload: the deserialized struct.
Body(text, json, error, payload) ==
    [text |-> text, json |-> json, error |-> error, payload |-> payload]
NoBody == Body(FALSE, FALSE, NoErrorObject, NoPayload)
Bodies ==
    {NoBody, Body(TRUE, FALSE, NoErrorObject, NoPayload)}
    \cup {Body(TRUE, TRUE, e, p) : e \in ErrorObjects \cup {NoErrorObject}, p \in Payloads}

\* HTTP status codes the server may answer with.
Statuses == {200, 400, 429, 500, 600}

\* The Result<reqwest::Response, reqwest::Error> of one closure run.
Outcome(kind, status, body) == [kind |-> kind, status |-> status, body |-> body]
NoOutcome == Outcome("None", 0, NoBody)
BuildErrOutcome == Outcome("BuildErr", 0, NoBody)
ConnErrOutcome == Outcome("ConnErr", 0, NoBody)

IsSuccess(s) == s >= 200 /\ s <= 299

IsServerErrorFrom500(s) == s >= 500
IsServerError(s) == s >= 500 /\ s <= 599

HttpOutcomes ==
    {Outcome("Http", s, b) : s \in {t \in Statuses : IsSuccess(t)}, b \in Bodies}
    \cup {Outcome("Http", s, NoBody) : s \in {t \in Statuses : ~IsSuccess(t)}}

\* Building the reqwest request depends on the URL only, so it fails on every
\* attempt of a request or on none.
UrlBuilds(q) == q # "points=unbuildable"
Outcomes(q) ==
    IF UrlBuilds(q) THEN {ConnErrOutcome} \cup HttpOutcomes ELSE {BuildErrOutcome}

\* How long a closure run may take: nothing is sent when the build fails.
CallTimes(o) == IF o.kind = "BuildErr" THEN {0} ELSE 0 .. MaxCallTime

\* ------------------------------------------------------------ classifier
Classified(class, cause, payload) == [class |-> class, cause |-> cause, payload |-> payload]
NotClassified == Classified("None", NoErr, NoPayload)

ServiceError(e) == Err("GoogleMapsService", 0, e.status, e.message)

HasErrorIgnoredWithPayload(b) == b.error # NoErrorObject /\ b.payload = "no_points"
HasError(b) == b.error # NoErrorObject

ClassifyBodyRetryUnreadable(b) ==
    IF ~b.text THEN Classified("Transient", Err("ReqwestMessage", 0, "", ""), NoPayload)
    ELSE IF ~b.json THEN Classified("Permanent", Err("SerdeJson", 0, "", ""), NoPayload)
    ELSE IF HasError(b) THEN Classified("Permanent", ServiceError(b.error), NoPayload)
    ELSE Classified("Ok", NoErr, b.payload)
ClassifyBodyLenient(b) ==
    IF ~b.text THEN Classified("Permanent", Err("ReqwestMessage", 0, "", ""), NoPayload)
    ELSE Classified("Ok", NoErr, b.payload)
ClassifyBody(b) ==
    IF ~b.text THEN Classified("Permanent", Err("ReqwestMessage", 0, "", ""), NoPayload)
    ELSE IF ~b.json THEN Classified("Permanent", Err("SerdeJson", 0, "", ""), NoPayload)
    ELSE IF HasError(b) THEN Classified("Permanent", ServiceError(b.error), NoPayload)
    ELSE Classified("Ok", NoErr, b.payload)

ClassifyStatus(s) ==
    IF IsServerError(s) \/ s = 429
    THEN Classified("Transient", Err("HttpUnsuccessful", s, "", ""), NoPayload)
    ELSE Classified("Permanent", Err("HttpUnsuccessful", s, "", ""), NoPayload)

\* Lines 117-121: no response was reached, whether the request could not be
\* built (line 55) or could not be sent (line 54).
ClassifyTransportBuildFatal(o) ==
    Classified(IF o.kind = "BuildErr" THEN "Permanent" ELSE "Transient",
               Err("Reqwest", 0, o.kind, ""), NoPayload)
ClassifyTransport(o) == Classified("Transient", Err("Reqwest", 0, o.kind, ""), NoPayload)

Classify(o) ==
    IF o.kind = "Http"
    THEN IF IsSuccess(o.status) THEN ClassifyBody(o.body) ELSE ClassifyStatus(o.status)
    ELSE ClassifyTransport(o)

\* The tracing call of each branch of the closure: warn! before a Transient
\* error, error! before a Permanent one, none on the Ok branch.
EventLevel(c) ==
    IF c.class = "Transient" THEN "warn"
    ELSE IF c.class = "Permanent" THEN "error"
    ELSE "none"

\* --------------------------------------------------------- backoff policy
\* ExponentialBackoff: multiplier 3/2, randomization factor 1/2.
RandomizedInterval(cur) == (cur - cur \div 2) .. (cur + cur \div 2)

IncrementCurrentInterval(cur) ==
    IF cur * 3 >= MaxInterval * 2 THEN MaxInterval ELSE (cur * 3) \div 2

\* next_backoff() yields the delay d unless the elapsed-time ceiling is hit.
BudgetLeftAlways(el, d) == TRUE
BudgetLeftStrict(el, d) == el + d < MaxElapsedTime
BudgetLeft(el, d) == el <= MaxElapsedTime /\ el + d <= MaxElapsedTime

\* get_elapsed_time(): the policy's clock runs on while the closure runs and
\* while the loop sleeps; it is never set back.
ElapsedRestarted(el, d) == 0
ElapsedAfter(el, d) == el + d

\* retry(): which classified results make the loop go round again.
RetryableAnyError(c) == c.class # "Ok"
Retryable(c) == c.class = "Transient"

\* The most closure runs the policy allows: the run count when every delay
\* drawn is the least of its range and every HTTP exchange takes no time.
RECURSIVE AttemptsFrom(_, _)
AttemptsFrom(el, cur) ==
    LET d == cur - cur \div 2
    IN  IF el + d <= MaxElapsedTime
        THEN 1 + AttemptsFrom(el + d, IncrementCurrentInterval(cur))
        ELSE 1
MaxAttempts == AttemptsFrom(0, InitialInterval)

\* ----------------------------------------------------------------- results
Pending == [tag |-> "Pending", payload |-> NoPayload, error |-> NoErr]
Succeed(p) == [tag |-> "Ok", payload |-> p, error |-> NoErr]
Fail(e) == [tag |-> "Err", payload |-> NoPayload, error |-> e]

RetryExhaustedTimeout(e) == Fail(Err("Timeout", 0, "", ""))
RetryExhausted(e) == Fail(e)

\* --------------------------------------------------- directions Request
\* Option<T>: None, or Some(x).
None == <<>>
Some(x) == <<x>>

\* The NaiveDateTime values a caller may pass.
Times == 1 .. MaxTime

BuilderCall(op, arg) == [op |-> op, arg |-> arg]
NoCall == BuilderCall("none", 0)

\* ------------------------------------------------------------------- state
VARIABLES
    query,        \* self.query of each request
    pc,           \* where each get() call stands
    tokens,       \* rate limiter: budget left in the window, per category
    granted,      \* rate limiter: debits granted in the window, per category
    elapsed,      \* backoff: ticks since the policy was created
    interval,     \* backoff: current_interval
    delay,        \* backoff: the delay last drawn by next_backoff()
    attempts,     \* closure runs so far
    netCalls,     \* reqwest_client.execute() calls so far
    debits,       \* limit_apis() passages so far
    transients,   \* closure runs classified Transient so far
    lastOutcome,  \* the raw outcome of the last closure run
    classified,   \* what the last closure run returned
    result,        \* what get() returned
    cancelledAt,  \* where a get() call was when its caller dropped it
    events,       \* trace events emitted for the outcomes of closure runs
    lastEvent,    \* the level of the event of the last closure run
    arrival_time, \* directions Request: arrival_time
    departure_time, \* directions Request: departure_time
    dirQuery,     \* directions Request: the query string, once built
    lastCall,     \* directions Request: the last builder call made
    acquired,     \* the categories limit_apis() has debited for each call
    url,          \* the url local of the latest get() call
    targeted,     \* every URL a closure run has asked reqwest for, over all get() calls
    repeated     \* whether the latest get() call is a repeated call on its request

vars == <<query, pc, tokens, granted, elapsed, interval, delay, attempts, netCalls,
          debits, transients, lastOutcome, classified, result,
          cancelledAt,
          events,
          lastEvent,
          arrival_time,
          departure_time,
          dirQuery,
          lastCall,
          acquired,
          url,
          targeted,
          repeated>>

dirVars == <<arrival_time, departure_time, dirQuery, lastCall>>
roadsVars == <<query, pc, tokens, granted, elapsed, interval, delay, attempts, netCalls,
               debits, transients, lastOutcome, classified, result, cancelledAt,
               events, lastEvent, acquired, url, targeted, repeated>>

Budget == [a \in Apis |-> IF a = "All" THEN BudgetAll ELSE BudgetRoads]

Init ==
    /\ query \in [Requests -> Queries]
    /\ pc = [r \in Requests |-> "start"]
    /\ tokens = Budget
    /\ granted = [a \in Apis |-> 0]
    /\ elapsed = [r \in Requests |-> 0]
    /\ interval = [r \in Requests |-> 0]
    /\ delay = [r \in Requests |-> 0]
    /\ attempts = [r \in Requests |-> 0]
    /\ netCalls = [r \in Requests |-> 0]
    /\ debits = [r \in Requests |-> 0]
    /\ transients = [r \in Requests |-> 0]
    /\ lastOutcome = [r \in Requests |-> NoOutcome]
    /\ classified = [r \in Requests |-> NotClassified]
    /\ result = [r \in Requests |-> Pending]
    /\ cancelledAt = [r \in Requests |-> "no"]
    /\ events = [r \in Requests |-> 0]
    /\ lastEvent = [r \in Requests |-> "none"]
    /\ arrival_time = None
    /\ departure_time = None
    /\ dirQuery = None
    /\ lastCall = NoCall
    /\ acquired = [r \in Requests |-> {}]
    /\ url = [r \in Requests |-> ""]
    /\ targeted = [r \in Requests |-> {}]
    /\ repeated = [r \in Requests |-> FALSE]

\* ----------------------------------------------------------------- actions
QueryBuiltAlways(q) == TRUE
QueryBuilt(q) == q # NoQuery

\* get(), lines 28-32: the URL stem with the query appended.
UrlStemOnly(q) == SERVICE_URL \o "/?"
Url(q) == SERVICE_URL \o "/?" \o q

\* get(), lines 27-35: the URL is assembled, or the call ends at once.
Get(r) ==
    /\ pc[r] = "start"
    /\ IF QueryBuilt(query[r])
       THEN /\ pc' = [pc EXCEPT ![r] = "limiting"]
            /\ url' = [url EXCEPT ![r] = Url(query[r])]
            /\ UNCHANGED result
       ELSE /\ pc' = [pc EXCEPT ![r] = "failed"]
            /\ result' = [result EXCEPT ![r] = Fail(QueryNotBuiltErr)]
            /\ UNCHANGED url
    /\ UNCHANGED <<repeated, targeted, acquired, dirVars, lastEvent, events, cancelledAt, query, tokens, granted, elapsed, interval, delay, attempts, netCalls,
                   debits, transients, lastOutcome, classified>>

\* The rate limiter: passage needs spare budget in every named category.
HasBudgetAlways(apis) == TRUE
HasBudget(apis) == \A a \in apis : tokens[a] > 0
\* The budget counters after one debit of every named category.
Debit(counters, apis) ==
    [a \in Apis |-> IF a \in apis THEN counters[a] - 1 ELSE counters[a]]

\* get(), line 38: the categories handed to limit_apis().
LimitedApisAllOnly == {"All"}
LimitedApis == {"All", "Roads"}

\* get(), lines 37-48: limit_apis([All, Roads]) lets the call through and the
\* retry policy is created.
LimitApis(r) ==
    /\ pc[r] = "limiting"
    /\ HasBudget(LimitedApis)
    /\ tokens' = Debit(tokens, LimitedApis)
    /\ granted' = [a \in Apis |-> IF a \in LimitedApis THEN granted[a] + 1 ELSE granted[a]]
    /\ acquired' = [acquired EXCEPT ![r] = LimitedApis]
    /\ debits' = [debits EXCEPT ![r] = @ + 1]
    /\ pc' = [pc EXCEPT ![r] = "attempting"]
    /\ interval' = [interval EXCEPT ![r] = InitialInterval]
    /\ elapsed' = [elapsed EXCEPT ![r] = 0]
    /\ UNCHANGED <<repeated, targeted, url, dirVars, lastEvent, events, cancelledAt, query, delay, attempts, netCalls, transients, lastOutcome,
                   classified, result>>

\* The rate limiter's window passes.
Refill ==
    /\ \E a \in Apis : granted[a] > 0
    /\ tokens' = Budget
    /\ granted' = [a \in Apis |-> 0]
    /\ UNCHANGED <<repeated, targeted, url, acquired, dirVars, lastEvent, events, cancelledAt, query, pc, elapsed, interval, delay, attempts, netCalls, debits,
                   transients, lastOutcome, classified, result>>

\* A call that is about to run its closure is held up by no other call: the
\* waits (limiter, sleep) are awaited, not blocking.
RunnableAlone(r) ==
    pc[r] = "attempting" /\ \A q \in Requests \ {r} : pc[q] \notin {"limiting", "backoff"}
Runnable(r) == pc[r] = "attempting"

\* get(), lines 48-124: one run of the closure and what retry() does with
\* its result.  A Transient error is dropped when retry() goes to sleep and
\* is returned when next_backoff() yields no delay; elapsed then records
\* when the refused sleep would have ended.
Attempt(r) ==
    /\ Runnable(r)
    /\ attempts[r] <= MaxAttempts
    /\ \E o \in Outcomes(query[r]) :
        LET c == Classify(o)
        IN  /\ attempts' = [attempts EXCEPT ![r] = @ + 1]
            /\ netCalls' = [netCalls EXCEPT ![r] = IF o.kind = "BuildErr" THEN @ ELSE @ + 1]
            /\ transients' = [transients EXCEPT ![r] = IF c.class = "Transient" THEN @ + 1 ELSE @]
            /\ events' = [events EXCEPT ![r] = IF EventLevel(c) = "none" THEN @ ELSE @ + 1]
            /\ lastEvent' = [lastEvent EXCEPT ![r] = EventLevel(c)]
            /\ targeted' = [targeted EXCEPT ![r] = @ \cup {url[r]}]
            /\ IF c.class = "Ok"
               THEN /\ pc' = [pc EXCEPT ![r] = "succeeded"]
                    /\ result' = [result EXCEPT ![r] = Succeed(c.payload)]
                    /\ lastOutcome' = [lastOutcome EXCEPT ![r] = o]
                    /\ classified' = [classified EXCEPT ![r] = c]
                    /\ elapsed' = [elapsed EXCEPT ![r] = 0]
                    /\ interval' = [interval EXCEPT ![r] = 0]
                    /\ delay' = [delay EXCEPT ![r] = 0]
               ELSE IF ~Retryable(c)
               THEN /\ pc' = [pc EXCEPT ![r] = "failed"]
                    /\ result' = [result EXCEPT ![r] = Fail(c.cause)]
                    /\ lastOutcome' = [lastOutcome EXCEPT ![r] = o]
                    /\ classified' = [classified EXCEPT ![r] = c]
                    /\ elapsed' = [elapsed EXCEPT ![r] = 0]
                    /\ interval' = [interval EXCEPT ![r] = 0]
                    /\ delay' = [delay EXCEPT ![r] = 0]
               ELSE \E t \in CallTimes(o), d \in RandomizedInterval(interval[r]) :
                    IF BudgetLeft(ElapsedAfter(elapsed[r], t), d)
                    THEN /\ pc' = [pc EXCEPT ![r] = "backoff"]
                         /\ elapsed' = [elapsed EXCEPT ![r] = ElapsedAfter(@, t)]
                         /\ interval' = [interval EXCEPT ![r] = IncrementCurrentInterval(@)]
                         /\ delay' = [delay EXCEPT ![r] = d]
                         /\ lastOutcome' = [lastOutcome EXCEPT ![r] = NoOutcome]
                         /\ classified' = [classified EXCEPT ![r] = NotClassified]
                         /\ UNCHANGED result
                    ELSE /\ pc' = [pc EXCEPT ![r] = "failed"]
                         /\ result' = [result EXCEPT ![r] = RetryExhausted(c.cause)]
                         /\ lastOutcome' = [lastOutcome EXCEPT ![r] = o]
                         /\ classified' = [classified EXCEPT ![r] = c]
                         /\ elapsed' = [elapsed EXCEPT ![r] = ElapsedAfter(@, t) + d]
                         /\ interval' = [interval EXCEPT ![r] = 0]
                         /\ delay' = [delay EXCEPT ![r] = 0]
    /\ UNCHANGED <<repeated, url, acquired, dirVars, cancelledAt, query, tokens, granted, debits>>

\* retry(): the sleep of a live call; a dropped call has no timer left.
SleepingOrDropped(r) == pc[r] \in {"backoff", "cancelled"}
Sleeping(r) == pc[r] = "backoff"

\* retry(): the sleep between two closure runs is over.
Wake(r) ==
    /\ Sleeping(r)
    /\ pc' = [pc EXCEPT ![r] = "attempting"]
    /\ elapsed' = [elapsed EXCEPT ![r] = ElapsedAfter(@, delay[r])]
    /\ delay' = [delay EXCEPT ![r] = 0]
    /\ UNCHANGED <<repeated, targeted, url, acquired, dirVars, lastEvent, events, cancelledAt, query, tokens, granted, interval, attempts, netCalls, debits,
                   transients, lastOutcome, classified, result>>

\* The caller drops the future of get() at one of its await points (lines 39,
\* 54, 66, 124): the call's locals, the retry policy among them, are gone.
Cancel(r) ==
    /\ pc[r] \in {"limiting", "attempting", "backoff"}
    /\ pc' = [pc EXCEPT ![r] = "cancelled"]
    /\ cancelledAt' = [cancelledAt EXCEPT ![r] = pc[r]]
    /\ elapsed' = [elapsed EXCEPT ![r] = 0]
    /\ interval' = [interval EXCEPT ![r] = 0]
    /\ delay' = [delay EXCEPT ![r] = 0]
    /\ UNCHANGED <<repeated, targeted, url, acquired, dirVars, lastEvent, events, query, tokens, granted, attempts, netCalls, debits, transients,
                   lastOutcome, classified, result>>

\* The caller, having seen a get() call end or having dropped it, calls get()
\* again on the same request without rebuilding its query.
Again(r) ==
    /\ pc[r] \in {"succeeded", "failed", "cancelled"}
    /\ pc' = [pc EXCEPT ![r] = "start"]
    /\ elapsed' = [elapsed EXCEPT ![r] = 0]
    /\ interval' = [interval EXCEPT ![r] = 0]
    /\ delay' = [delay EXCEPT ![r] = 0]
    /\ attempts' = [attempts EXCEPT ![r] = 0]
    /\ netCalls' = [netCalls EXCEPT ![r] = 0]
    /\ debits' = [debits EXCEPT ![r] = 0]
    /\ transients' = [transients EXCEPT ![r] = 0]
    /\ lastOutcome' = [lastOutcome EXCEPT ![r] = NoOutcome]
    /\ classified' = [classified EXCEPT ![r] = NotClassified]
    /\ result' = [result EXCEPT ![r] = Pending]
    /\ cancelledAt' = [cancelledAt EXCEPT ![r] = "no"]
    /\ events' = [events EXCEPT ![r] = 0]
    /\ lastEvent' = [lastEvent EXCEPT ![r] = "none"]
    /\ acquired' = [acquired EXCEPT ![r] = {}]
    /\ repeated' = [repeated EXCEPT ![r] = TRUE]
    /\ UNCHANGED <<targeted, url, dirVars, query, tokens, granted>>

Next ==
    \/ \E r \in Requests : Get(r)
    \/ \E r \in Requests : LimitApis(r)
    \/ Refill
    \/ \E r \in Requests : Attempt(r)
    \/ \E r \in Requests : Wake(r)
    \/ \E r \in Requests : Cancel(r)

Spec == Init /\ [][Next]_vars

RepeatNext ==
    \/ Next
    \/ \E r \in Requests : Again(r)

\* Callers that call get() on a request any number of times.
RepeatSpec == Init /\ [][RepeatNext]_vars

\* ------------------------------------------- directions Request builder
WithArrivalTimeExclusive(t) ==
    /\ arrival_time' = Some(t)
    /\ departure_time' = None
    /\ lastCall' = BuilderCall("with_arrival_time", t)
    /\ UNCHANGED <<dirQuery, roadsVars>>

\* with_arrival_time(), lines 26-29.
WithArrivalTime(t) ==
    /\ arrival_time' = Some(t)
    /\ lastCall' = BuilderCall("with_arrival_time", t)
    /\ UNCHANGED <<departure_time, dirQuery, roadsVars>>

\* with_departure_time(): the sibling setter.
WithDepartureTime(t) ==
    /\ departure_time' = Some(t)
    /\ lastCall' = BuilderCall("with_departure_time", t)
    /\ UNCHANGED <<arrival_time, dirQuery, roadsVars>>

\* build(): the query string is made from the fields as they stand.
DirBuild ==
    /\ dirQuery' = Some(<<arrival_time, departure_time>>)
    /\ lastCall' = BuilderCall("build", 0)
    /\ UNCHANGED <<arrival_time, departure_time, roadsVars>>

DirNext ==
    \/ \E t \in Times : WithArrivalTime(t)
    \/ \E t \in Times : WithDepartureTime(t)
    \/ DirBuild

\* A caller setting up a directions Request, no get() running.
DirSpec == Init /\ [][DirNext]_vars

\* The runtime polls a ready future: a closure run returns and a sleep ends.
FairSpec == Spec /\ \A r \in Requests : WF_vars(Attempt(r)) /\ WF_vars(Wake(r))

\* ------------------------------------------------------------------ claims
Terminal(r) == pc[r] \in {"succeeded", "failed"}
InRetryLoop(r) == pc[r] \in {"attempting", "backoff"}

\* C1: a get() on a request whose query is None returns QueryNotBuilt and has
\* made no network call, taken no rate-limit budget and run the closure never.
C1_QueryNotBuilt ==
    \A r \in Requests :
        (query[r] = NoQuery /\ pc[r] # "start") =>
            /\ pc[r] = "failed"
            /\ result[r] = Fail(QueryNotBuiltErr)
            /\ netCalls[r] = 0
            /\ debits[r] = 0
            /\ attempts[r] = 0
C1_Witness ==
    \E r \in Requests : query[r] = NoQuery /\ pc[r] = "failed"

\* C2: a request never has issued more network calls than it has made
\* rate-limit debits (every attempt, retries included, has its own debit).
C2_CallsWithinDebits ==
    \A r \in Requests : netCalls[r] <= debits[r]

\* C3: once a closure run is classified Permanent, get() has failed with that
\* cause, after one run more than there were Transient runs (a lone 400: one
\* run), and no further run or network call is ever made.
C3_NoRetryAfterPermanent ==
    /\ [](\A r \in Requests :
            classified[r].class = "Permanent" =>
                /\ pc[r] = "failed"
                /\ result[r] = Fail(classified[r].cause)
                /\ attempts[r] = transients[r] + 1)
    /\ [][\A r \in Requests :
            classified[r].class = "Permanent" =>
                /\ attempts'[r] = attempts[r]
                /\ netCalls'[r] = netCalls[r]
                /\ result'[r] = result[r]
                /\ pc'[r] = "failed"]_vars
C3_Witness ==
    \E r \in Requests :
        /\ lastOutcome[r] = Outcome("Http", 400, NoBody)
        /\ classified[r].class = "Permanent"
        /\ pc[r] = "failed"
        /\ attempts[r] = 1
        /\ netCalls[r] = 1

\* C4: a response with a non-2xx status is classified Transient exactly when
\* the status is in 500..599 or is 429, and Permanent otherwise.
C4_StatusClassification ==
    \A r \in Requests :
        LET s == lastOutcome[r].status
        IN  (lastOutcome[r].kind = "Http" /\ (s < 200 \/ s > 299)) =>
                IF (s >= 500 /\ s <= 599) \/ s = 429
                THEN classified[r].class = "Transient"
                ELSE classified[r].class = "Permanent"
C4_Witness ==
    \E r1, r2 \in Requests :
        /\ lastOutcome[r1].status = 429 /\ classified[r1].class = "Transient"
        /\ lastOutcome[r2].status = 600 /\ classified[r2].class = "Permanent"

\* C5: a 2xx response whose body parses and carries an embedded error object
\* is classified Permanent as a service error with the object's status and
\* message, whatever the payload, and get() fails with it: no success.
C5_EmbeddedErrorWins ==
    \A r \in Requests :
        LET o == lastOutcome[r]
        IN  (/\ o.kind = "Http" /\ o.status >= 200 /\ o.status <= 299
             /\ o.body.text /\ o.body.json /\ o.body.error # NoErrorObject) =>
                /\ classified[r].class = "Permanent"
                /\ classified[r].cause.variant = "GoogleMapsService"
                /\ classified[r].cause.status = o.body.error.status
                /\ classified[r].cause.message = o.body.error.message
                /\ pc[r] = "failed"
                /\ result[r] = Fail(classified[r].cause)
C5_Witness ==
    \E r \in Requests :
        /\ lastOutcome[r].kind = "Http"
        /\ lastOutcome[r].body.error \in ErrorObjects
        /\ lastOutcome[r].body.payload = "snapped_points"
        /\ result[r].tag = "Err"
        /\ result[r].error.message = "bad points"

\* C6: a get() that succeeded ran the closure once more than the number of
\* Transient runs before the success, each run being one network call; and
\* a Transient run ends get() only when the retry budget is exhausted.
C6_TransientsThenSuccess ==
    \A r \in Requests :
        /\ pc[r] = "succeeded" =>
            /\ attempts[r] = transients[r] + 1
            /\ netCalls[r] = attempts[r]
            /\ classified[r].class = "Ok"
            /\ result[r] = Succeed(lastOutcome[r].body.payload)
        /\ (pc[r] = "failed" /\ classified[r].class = "Transient") =>
            elapsed[r] > MaxElapsedTime
C6_Witness ==
    \E r \in Requests :
        /\ pc[r] = "succeeded"
        /\ transients[r] = 3
        /\ attempts[r] = 4
        /\ netCalls[r] = 4

\* C7: one get() never runs the closure, nor calls the network, more often
\* than the maximum number of attempts its retry policy allows.
C7_AttemptsBounded ==
    \A r \in Requests : attempts[r] <= MaxAttempts /\ netCalls[r] <= attempts[r]
C7_Witness ==
    \E r \in Requests : attempts[r] = MaxAttempts /\ netCalls[r] = MaxAttempts

\* C8: a get() that is past the rate limiter eventually succeeds or fails,
\* unless its caller drops it first.
C8_RetryLoopTerminates ==
    \A r \in Requests : InRetryLoop(r) ~> (Terminal(r) \/ pc[r] = "cancelled")
C8_Witness ==
    \E r \in Requests :
        /\ pc[r] = "failed"
        /\ classified[r].class = "Transient"
        /\ transients[r] >= 2
        /\ transients[r] = attempts[r]

\* C9: when the retry budget runs out after a Transient run, get() fails with
\* the cause of that last run: its status for an HTTP answer, the reqwest
\* error otherwise.
C9_LastTransientCause ==
    \A r \in Requests :
        (pc[r] = "failed" /\ classified[r].class = "Transient") =>
            /\ result[r].tag = "Err"
            /\ result[r].error = classified[r].cause
            /\ IF lastOutcome[r].kind = "Http"
               THEN /\ result[r].error.variant = "HttpUnsuccessful"
                    /\ result[r].error.code = lastOutcome[r].status
               ELSE /\ result[r].error.variant = "Reqwest"
                    /\ result[r].error.status = lastOutcome[r].kind
C9_Witness ==
    \E r \in Requests :
        /\ pc[r] = "failed"
        /\ attempts[r] >= 2
        /\ lastOutcome[r].status = 500
        /\ result[r].error.code = 500

\* C10: within one refill window the rate limiter grants no category more
\* debits than its budget; the callers it has not let through are waiting.
C10_DebitsWithinBudget ==
    /\ \A a \in Apis : granted[a] <= Budget[a] /\ tokens[a] >= 0
    /\ \A r \in Requests : (pc[r] = "limiting") => debits[r] = 0
C10_Witness ==
    \E r1, r2 \in Requests :
        /\ pc[r1] = "limiting"
        /\ debits[r2] = 1
        /\ \E a \in Apis : granted[a] = Budget[a]

\* C11: a get() dropped while it sleeps in backoff runs the closure and calls
\* the network never again, and its debit is not held: budget and grants of
\* a window always add up, and every refill restores the whole budget.
C11_CancelledInBackoff ==
    /\ [](\A a \in Apis : tokens[a] + granted[a] = Budget[a])
    /\ [][\A r \in Requests :
            pc[r] = "cancelled" =>
                \/ pc'[r] = "start"
                \/ /\ pc'[r] = "cancelled"
                   /\ attempts'[r] = attempts[r]
                   /\ netCalls'[r] = netCalls[r]
                   /\ debits'[r] = debits[r]]_vars
    /\ [][(granted' # granted /\ \A a \in Apis : granted'[a] = 0) => tokens' = Budget]_vars
C11_Witness ==
    \E r1, r2 \in Requests :
        /\ pc[r1] = "cancelled" /\ cancelledAt[r1] = "backoff"
        /\ debits[r1] = 1 /\ attempts[r1] >= 1
        /\ pc[r2] = "attempting" /\ debits[r2] = 1 /\ attempts[r2] = 0
        /\ \A a \in Apis : tokens[a] = Budget[a] - 1

\* C12: every closure run, whatever its outcome, has emitted a trace event
\* for that outcome by the time the retry loop has acted on it.
C12_EveryAttemptTraced ==
    \A r \in Requests : events[r] = attempts[r]

\* C13: whatever builder calls were made, a directions Request holds at most
\* one of arrival_time and departure_time.
C13_AtMostOneTime ==
    ~(arrival_time # None /\ departure_time # None)

\* C14: a get() call hands its caller one outcome, which never changes: the
\* payload of its last closure run when that run got a 2xx answer whose body
\* parsed without an error object, else the error of its last run (or
\* QueryNotBuilt when nothing ran); nothing is handed over before the end.
C14_OneFinalOutcome ==
    /\ [](\A r \in Requests :
            LET o == lastOutcome[r]
            IN  /\ result[r].tag = "Ok" =>
                    /\ pc[r] = "succeeded"
                    /\ o.kind = "Http" /\ o.status >= 200 /\ o.status <= 299
                    /\ o.body.text /\ o.body.json /\ o.body.error = NoErrorObject
                    /\ result[r].payload = o.body.payload
                /\ result[r].tag = "Err" =>
                    /\ pc[r] = "failed"
                    /\ IF attempts[r] = 0
                       THEN result[r].error = QueryNotBuiltErr
                       ELSE /\ classified[r].class \in {"Permanent", "Transient"}
                            /\ result[r].error = classified[r].cause
                /\ result[r].tag = "Pending" <=> pc[r] \notin {"succeeded", "failed"})
    /\ [][\A r \in Requests :
            result[r] # Pending => (result'[r] = result[r] \/ pc'[r] = "start")]_vars
C14_Witness ==
    \E r \in Requests :
        /\ pc[r] = "succeeded"
        /\ transients[r] >= 2
        /\ result[r] = Succeed("snapped_points")

\* What one get() call owns: everything but the rate limiter's counters.
Own(r) ==
    <<query[r], pc[r], elapsed[r], interval[r], delay[r], attempts[r], netCalls[r],
      debits[r], transients[r], lastOutcome[r], classified[r], result[r],
      cancelledAt[r], events[r], lastEvent[r], acquired[r], url[r], targeted[r],
      repeated[r]>>

\* C15: concurrent get() calls are independent state machines: a call about
\* to run its closure can do so whatever the others are waiting for, and no
\* step changes what two calls own (only the limiter's counters are shared).
C15_IndependentRequests ==
    /\ [](\A r \in Requests : pc[r] = "attempting" => ENABLED Attempt(r))
    /\ [][\A r1, r2 \in Requests :
            (Own(r1)' # Own(r1) /\ Own(r2)' # Own(r2)) => r1 = r2]_vars
C15_Witness ==
    \E r1, r2 \in Requests :
        /\ pc[r1] = "backoff"
        /\ pc[r2] = "attempting"
        /\ attempts[r2] >= 1
        /\ ENABLED Attempt(r2)

\* C16: the limiter has let the call through for both the "All" and the Roads
\* category before its first network call; a call still waiting for the
\* limiter has run no closure and sent nothing.
C16_AcquiredBeforeFirstCall ==
    \A r \in Requests :
        /\ netCalls[r] > 0 => acquired[r] = {"All", "Roads"} /\ debits[r] >= 1
        /\ pc[r] = "limiting" => netCalls[r] = 0 /\ attempts[r] = 0 /\ acquired[r] = {}
C16_Witness ==
    \E r1, r2 \in Requests :
        /\ pc[r1] = "limiting" /\ ~HasBudget(LimitedApis)
        /\ netCalls[r2] > 0 /\ acquired[r2] = {"All", "Roads"}

\* C17: a request that cannot be built is classified like a connection
\* failure: every closure run of such a get() is Transient and sends nothing,
\* and the call fails only when the retry budget is exhausted, with the
\* reqwest error as its cause.
C17_BuildFailureTransient ==
    /\ \A r \in Requests :
        lastOutcome[r].kind \in {"BuildErr", "ConnErr"} =>
            /\ classified[r].class = "Transient"
            /\ classified[r].cause = Err("Reqwest", 0, lastOutcome[r].kind, "")
    /\ \A r \in Requests :
        ~UrlBuilds(query[r]) =>
            /\ netCalls[r] = 0
            /\ transients[r] = attempts[r]
            /\ classified[r].class \in {"None", "Transient"}
            /\ pc[r] # "succeeded"
            /\ (pc[r] = "failed" /\ attempts[r] > 0) =>
                /\ lastOutcome[r] = BuildErrOutcome
                /\ classified[r].class = "Transient"
                /\ elapsed[r] > MaxElapsedTime
                /\ attempts[r] >= 2
                /\ result[r] = Fail(Err("Reqwest", 0, "BuildErr", ""))
C17_Witness ==
    \E r \in Requests :
        /\ ~UrlBuilds(query[r])
        /\ pc[r] = "failed"
        /\ lastOutcome[r] = BuildErrOutcome
        /\ attempts[r] >= 2
        /\ result[r] = Fail(Err("Reqwest", 0, "BuildErr", ""))

\* C18: a 2xx response whose body cannot be read, or cannot be deserialized,
\* is classified Permanent and ends get() with that run: the call has failed
\* with the read or parse error and the run was its last.
C18_UnreadableBodyPermanent ==
    /\ [](\A r \in Requests :
            LET o == lastOutcome[r]
            IN  (o.kind = "Http" /\ IsSuccess(o.status) /\ (~o.body.text \/ ~o.body.json)) =>
                    /\ classified[r].class = "Permanent"
                    /\ pc[r] = "failed"
                    /\ attempts[r] = transients[r] + 1
                    /\ result[r] = Fail(Err(IF ~o.body.text THEN "ReqwestMessage"
                                            ELSE "SerdeJson", 0, "", "")))
    /\ [][\A r \in Requests :
            LET o == lastOutcome[r]
            IN  (o.kind = "Http" /\ IsSuccess(o.status) /\ (~o.body.text \/ ~o.body.json)) =>
                    ~(pc'[r] \in {"attempting", "backoff"})]_vars
C18_Witness ==
    \E r1, r2 \in Requests :
        /\ lastOutcome[r1].kind = "Http" /\ IsSuccess(lastOutcome[r1].status)
        /\ ~lastOutcome[r1].body.text
        /\ result[r1].error.variant = "ReqwestMessage"
        /\ lastOutcome[r2].kind = "Http" /\ IsSuccess(lastOutcome[r2].status)
        /\ lastOutcome[r2].body.text /\ ~lastOutcome[r2].body.json
        /\ result[r2].error.variant = "SerdeJson"
        /\ transients[r2] >= 1

\* C19: get() leaves the request's query as it is, and every closure run, of
\* a first get() call and of a repeated one alike, asks for the service URL
\* followed by "/?" and that query.
C19_SameUrlEveryAttempt ==
    /\ [](\A r \in Requests :
            \A t \in targeted[r] : t = SERVICE_URL \o "/?" \o query[r])
    /\ [][query' = query]_vars
C19_Witness ==
    \E r \in Requests :
        /\ repeated[r]
        /\ attempts[r] >= 2
        /\ pc[r] = "attempting"
        /\ url[r] = SERVICE_URL \o "/?" \o query[r]
        /\ targeted[r] = {url[r]}

\* C20: with_arrival_time(t) sets arrival_time to Some(t) and changes no other
\* field of the Request, departure_time and an already built query included;
\* after several calls arrival_time holds the value given last.
C20_OnlyArrivalTimeSet ==
    /\ [](lastCall.op = "with_arrival_time" => arrival_time = Some(lastCall.arg))
    /\ [][lastCall'.op = "with_arrival_time" =>
            /\ arrival_time' = Some(lastCall'.arg)
            /\ departure_time' = departure_time
            /\ dirQuery' = dirQuery
            /\ roadsVars' = roadsVars]_vars
C20_Witness ==
    \E t1, t2, d \in Times :
        /\ t1 # t2
        /\ dirQuery = Some(<<Some(t1), Some(d)>>)
        /\ departure_time = Some(d)
        /\ lastCall = BuilderCall("with_arrival_time", t2)
        /\ arrival_time = Some(t2)

====
